---------------------------- MODULE Spec2Model ----------------------------
(***************************************************************************)
(* Model of the batch upload utility: upload_data.py (the upload script), *)
(* verify_upload.py (the read-only verifier) and config.py (settings and  *)
(* validate_config).                                                       *)
(*                                                                         *)
(* The vector store (Pinecone), the graph store (Neo4j) and the dataset   *)
(* file are the environment.  Their calls are modelled by what the calls  *)
(* the scripts issue do: upsert by vector id, MATCH / MERGE / SET /       *)
(* DETACH DELETE on a property graph, and a call that may raise.          *)
(***************************************************************************)
EXTENDS Integers, Sequences, FiniteSets, Bags, TLC

VARIABLES
    \* ---- the upload script's process (upload_data.py)
    pc,                 \* position in the script
    data,               \* the loaded records (line 90)
    i,                  \* cursor of the loop being run (1-based)
    vectors_to_upload,  \* the batch being accumulated (line 110)
    driver,             \* "none" | "open" | "closed"
    exc,                \* origin of the exception raised in this run, or "none"
    handled,            \* times the except clause (line 223) ran in this run
    status,             \* "running" | "sys.exit(1)" | "uncaught" | "clean"
    upserts,            \* the index.upsert calls of this run, in order
    tx,                 \* write transactions and rel queries of this run
    run,                \* number of the current invocation of the script
    \* ---- the environment, which outlives a process
    file,               \* the dataset file on disk
    index,              \* the vector index
    graph,              \* the graph store
    clock,              \* the graph store's clock, read by datetime()
    \* ---- the verifier (verify_upload.py)
    report,
    \* ---- config.py
    environ,            \* the process environment config.py reads
    cfg,                \* the module-level settings (lines 9-31)
    validation          \* outcome of validate_config()

vars == <<pc, data, i, vectors_to_upload, driver, exc, handled, status,
          upserts, tx, run, file, index, graph, clock, report,
          environ, cfg, validation>>

procVars == <<pc, data, i, vectors_to_upload, driver, exc, handled, status,
              upserts, tx, run>>
storeVars == <<file, index, graph, clock>>
configVars == <<environ, cfg, validation>>

---------------------------------------------------------------------------
(* Bounds of the model *)

MaxRecs == 2        \* longest dataset of the full-run specification
MaxLong == 65       \* longest dataset of the batching specification
MaxClock == 1       \* last tick of the graph store's clock
MaxRuns == 2        \* invocations of the upload script

(* Program constants *)

BATCH_SIZE == 32    \* upload_data.py line 23
TopLimit == 10      \* verify_upload.py line 40, LIMIT 10

---------------------------------------------------------------------------
(* Python values *)

\* A str or an int: the two kinds a record id may have.
StrVal(s) == [k |-> "str", s |-> s]
IntVal(n) == [k |-> "int", n |-> n]

\* str(x)
Str(x) == IF x.k = "int" THEN StrVal(ToString(x.n)) ELSE x

\* d.get(key, default)
Get(d, key, default) == IF key \in DOMAIN d THEN d[key] ELSE default

\* the truth value of a sequence-like value (str as a sequence of parts, list)
Truthy(s) == Len(s) > 0

RECURSIVE Flatten(_)
Flatten(ss) == IF ss = <<>> THEN <<>> ELSE Head(ss) \o Flatten(Tail(ss))

RECURSIVE SumSeq(_)
SumSeq(ns) == IF ns = <<>> THEN 0 ELSE Head(ns) + SumSeq(Tail(ns))

Range(s) == {s[k] : k \in DOMAIN s}

---------------------------------------------------------------------------
(* The datasets the scripts are run on *)

Conn(id, type) == [id |-> StrVal(id), type |-> type]

\* The values of a record's "connections" key.  The second list holds a
\* connection to "3", which is no record's id, a connection without a "type"
\* key, and a connection that spells out the type the second one defaults to.
ConnLists ==
    { <<Conn("2", "NEXT")>>,
      <<Conn("3", "NEXT"), [id |-> StrVal("2")], Conn("2", "RELATED")>> }

Ids == {StrVal("1"), StrVal("2")}

Attrs == { [name |-> "A", description |-> "d1", type |-> "t1"],
           [name |-> "B", description |-> "d2", type |-> "t2"] }

WithAttrs(id, a) ==
    [id |-> id, name |-> a.name, description |-> a.description, type |-> a.type]

WithConns(id, a, c) ==
    [id |-> id, name |-> a.name, description |-> a.description,
     type |-> a.type, connections |-> c]

AttrsOf(id) == CHOOSE a \in Attrs : (a.name = "A") <=> (id = StrVal("1"))

\* Records without a "connections" key, of either id and either content, and
\* records with one.
Records ==
    {WithAttrs(id, a) : id \in Ids, a \in Attrs}
    \cup {WithConns(id, AttrsOf(id), c) : id \in Ids, c \in ConnLists}

SeqsUpTo(S, n) == UNION {[1..m -> S] : m \in 0..n}

DataSets == SeqsUpTo(Records, MaxRecs)

\* A dataset of n copies of one record: longer than a batch when n is, at the
\* cost of a single node.
Repeated(r, n) == [k \in 1..n |-> r]

\* A dataset of n plain records with the int ids 1..n.
LongData(n) ==
    [k \in 1..n |-> [id |-> IntVal(k), name |-> "A", description |-> "d1",
                     type |-> "t1"]]

---------------------------------------------------------------------------
(* upload_data.py: the vector store side *)

EmptyStr == ""

\* create_embedding_text (lines 99-106).  The text is kept as the sequence of
\* the parts that " ".join puts together; filter(None, ...) drops the empty
\* ones.
create_embedding_text(item) ==
    SelectSeq(<<Get(item, "name", EmptyStr),
                Get(item, "description", EmptyStr),
                Get(item, "type", EmptyStr)>>,
              LAMBDA part : part # EmptyStr)

\* model.encode(text).tolist() (line 117): the embedding is a function of the
\* text and of nothing else.
Encode(text) == [embedding_of |-> text]

\* The vector built for the record at 0-based position n (lines 114-132).
\* metadata.text, the first 1000 characters of the text, is not carried:
\* the text is kept by parts, not by characters.
VectorEntry(item, n) ==
    [id |-> Str(Get(item, "id", IntVal(n))),
     values |-> Encode(create_embedding_text(item)),
     metadata |-> [id |-> Get(item, "id", Str(IntVal(n))),
                   name |-> Get(item, "name", EmptyStr),
                   description |-> Get(item, "description", EmptyStr),
                   type |-> Get(item, "type", EmptyStr)]]

\* The condition of line 135.
ShouldFlush_strict(batch) == Len(batch) > BATCH_SIZE

ShouldFlush(batch) == Len(batch) >= BATCH_SIZE

\* index.upsert(vectors=batch): a vector replaces the stored vector of the
\* same id; of two vectors of one id in a batch the later one stays.
IndexUpsert(stored, batch) ==
    LET ids == {batch[k].id : k \in DOMAIN batch}
        last(id) == batch[CHOOSE k \in DOMAIN batch :
                            /\ batch[k].id = id
                            /\ \A m \in DOMAIN batch : batch[m].id = id => m <= k]
    IN {v \in stored : v.id \notin ids} \cup {last(id) : id \in ids}

---------------------------------------------------------------------------
(* upload_data.py: the graph store side *)

EmptyGraph == [nodes |-> {}, edges |-> EmptyBag]

Matching(g, label, id) == {n \in g.nodes : n.label = label /\ n.id = id}

FreshNid(nodes) ==
    CHOOSE n \in 0..Cardinality(nodes) : n \notin {x.nid : x \in nodes}

\* clear_database (lines 152-153): MATCH (n) DETACH DELETE n
clear_database_keep(g) == g

clear_database(g) == EmptyGraph

\* create_node (lines 155-167): MERGE (n:ServiceRule {id: $id}) SET ...
\* Every node the MERGE matches is updated; when it matches none, one is
\* created.  datetime() reads the store's clock: `now`.
create_node(g, item, now) ==
    LET id == Get(item, "id", StrVal(EmptyStr))
        matched == Matching(g, "ServiceRule", id)
        set(n) == [n EXCEPT !.name = Get(item, "name", EmptyStr),
                            !.description = Get(item, "description", EmptyStr),
                            !.type = Get(item, "type", EmptyStr),
                            !.created_at = now]
    IN IF matched = {}
       THEN [g EXCEPT !.nodes = @ \cup
                {set([nid |-> FreshNid(g.nodes), label |-> "ServiceRule",
                      id |-> id, name |-> EmptyStr, description |-> EmptyStr,
                      type |-> EmptyStr, created_at |-> now])}]
       ELSE [g EXCEPT !.nodes = {IF n \in matched THEN set(n) ELSE n : n \in @}]

RelEdge(a, b, relation_type) ==
    [from |-> a.nid, to |-> b.nid, rel |-> "RELATED_TO", type |-> relation_type]

\* The query of lines 172-180, for one connection:
\*   MATCH (a:ServiceRule {id: $from_id}) MATCH (b:ServiceRule {id: $to_id})
\*   MERGE (a)-[:RELATED_TO {type: $relation_type}]->(b)
\* For every pair (a, b) the two MATCHes yield, the edge is created unless
\* one is there.
merge_relationship_whole_pattern(g, from_id, to_id, relation_type) ==
    LET mk(id, nodes) ==
            [nid |-> FreshNid(nodes), label |-> "ServiceRule", id |-> id,
             name |-> EmptyStr, description |-> EmptyStr, type |-> EmptyStr,
             created_at |-> 0]
        g1 == IF Matching(g, "ServiceRule", from_id) = {}
              THEN [g EXCEPT !.nodes = @ \cup {mk(from_id, g.nodes)}] ELSE g
        g2 == IF Matching(g1, "ServiceRule", to_id) = {}
              THEN [g1 EXCEPT !.nodes = @ \cup {mk(to_id, g1.nodes)}] ELSE g1
        wanted == {RelEdge(a, b, relation_type) :
                      a \in Matching(g2, "ServiceRule", from_id),
                      b \in Matching(g2, "ServiceRule", to_id)}
    IN [g2 EXCEPT !.edges =
            @ (+) SetToBag({e \in wanted : ~BagIn(e, g2.edges)})]

merge_relationship(g, from_id, to_id, relation_type) ==
    LET wanted == {RelEdge(a, b, relation_type) :
                      a \in Matching(g, "ServiceRule", from_id),
                      b \in Matching(g, "ServiceRule", to_id)}
    IN [g EXCEPT !.edges = @ (+) SetToBag({e \in wanted : ~BagIn(e, g.edges)})]

\* item['connections'] when the key is there (line 170), else nothing to do.
Connections(item) == Get(item, "connections", <<>>)

RECURSIVE run_connections(_, _, _)
run_connections(g, item, conns) ==
    IF conns = <<>> THEN g
    ELSE run_connections(
            merge_relationship(g, Get(item, "id", StrVal(EmptyStr)),
                               Get(Head(conns), "id", StrVal(EmptyStr)),
                               Get(Head(conns), "type", "RELATED")),
            item, Tail(conns))

\* create_relationships (lines 169-180): the body of one write transaction.
create_relationships(g, item) == run_connections(g, item, Connections(item))

\* Line 195 hands create_relationships to session.write_transaction once for
\* each record: the transactions one record costs, and the queries in them.
RelTransactions_perEdge(item) == Len(Connections(item))

RelTransactions(item) == 1

RelQueries(item) == Len(Connections(item))

\* The loop of lines 189-190 as one step: a node transaction for each record
\* in turn, the k-th reading the clock at times[k].
RECURSIVE upload_nodes(_, _, _)
upload_nodes(g, records, times) ==
    IF records = <<>> THEN g
    ELSE upload_nodes(create_node(g, Head(records), Head(times)),
                      Tail(records), Tail(times))

NoTx == [clear |-> 0, node |-> 0, rel |-> 0, query |-> 0]

---------------------------------------------------------------------------
(* upload_data.py: the script, top to bottom *)

\* Where control goes when a call inside the try block (lines 203-221)
\* raises: no function of the script catches, so the except clause of
\* line 223 is next.
OnRaise_swallowed(origin) == IF origin = "pinecone" THEN "clear" ELSE "except"

OnRaise(origin) == "except"

\* The for loops of lines 189-190 and 194-195, and what follows them.
RelsNext(k) == IF k <= Len(data) THEN "rels" ELSE "verify"

NodesNext_offByOne(k) == IF k < Len(data) THEN "nodes" ELSE RelsNext(1)

NodesNext(k) == IF k <= Len(data) THEN "nodes" ELSE RelsNext(1)

Cursor(k) == IF k <= Len(data) THEN k ELSE 1

Raise(origin) ==
    /\ exc' = origin
    /\ pc' = OnRaise(origin)

\* A process that ends outside the try block: sys.exit(1), or an exception
\* nothing catches.  Neither reaches the finally clause.
Die(how) ==
    /\ pc' = "exited"
    /\ status' = how

\* Lines 42-57: the credential checks, the clients, the driver.
InitClients ==
    /\ pc = "init_clients"
    /\ \/ /\ Die("sys.exit(1)")          \* lines 42-44, 53-55
          /\ UNCHANGED driver
       \/ /\ Die("uncaught")             \* pinecone.init, SentenceTransformer
          /\ UNCHANGED driver
       \/ /\ driver' = "open"            \* line 57
          /\ pc' = "ensure_index"
          /\ UNCHANGED status
    /\ UNCHANGED <<data, i, vectors_to_upload, exc, handled, upserts, tx, run>>
    /\ UNCHANGED <<storeVars, report, configVars>>

\* Lines 62-79: create the index when it is not listed.
EnsureIndex ==
    /\ pc = "ensure_index"
    /\ \/ /\ Die("uncaught")             \* list_indexes / create_index raises
          /\ UNCHANGED index
       \/ /\ index' = [index EXCEPT !.exists = TRUE]
          /\ pc' = "load_data"
          /\ UNCHANGED status
    /\ UNCHANGED <<data, i, vectors_to_upload, driver, exc, handled, upserts,
                   tx, run>>
    /\ UNCHANGED <<file, graph, clock, report, configVars>>

\* Lines 84-92: the data file check and the load.
LoadData ==
    /\ pc = "load_data"
    /\ \/ /\ ~file.exists                \* lines 85-87
          /\ Die("sys.exit(1)")
          /\ UNCHANGED <<data, i>>
       \/ /\ file.exists                 \* open / json.load raises
          /\ Die("uncaught")
          /\ UNCHANGED <<data, i>>
       \/ /\ file.exists
          /\ data' = file.records
          /\ i' = 1
          /\ pc' = "pinecone"
          /\ UNCHANGED status
    /\ UNCHANGED <<vectors_to_upload, driver, exc, handled, upserts, tx, run>>
    /\ UNCHANGED <<storeVars, report, configVars>>

\* One iteration of the loop of upload_to_pinecone (lines 112-137).
PineconeItem ==
    /\ pc = "pinecone"
    /\ i <= Len(data)
    /\ LET batch == Append(vectors_to_upload, VectorEntry(data[i], i - 1))
       IN \/ /\ Raise("pinecone")        \* model.encode raises
             /\ UNCHANGED <<i, vectors_to_upload, upserts, index>>
          \/ /\ ~ShouldFlush(batch)
             /\ vectors_to_upload' = batch
             /\ i' = i + 1
             /\ UNCHANGED <<pc, exc, upserts, index>>
          \/ /\ ShouldFlush(batch)       \* line 136 returns
             /\ upserts' = Append(upserts, batch)
             /\ index' = [index EXCEPT !.vectors = IndexUpsert(@, batch)]
             /\ vectors_to_upload' = <<>>
             /\ i' = i + 1
             /\ UNCHANGED <<pc, exc>>
          \/ /\ ShouldFlush(batch)       \* line 136 raises
             /\ upserts' = Append(upserts, batch)
             /\ Raise("pinecone")
             /\ UNCHANGED <<i, vectors_to_upload, index>>
    /\ UNCHANGED <<data, driver, handled, status, tx, run>>
    /\ UNCHANGED <<file, graph, clock, report, configVars>>

\* Lines 139-143: the remainder, and the return to line 208.
PineconeFinish ==
    /\ pc = "pinecone"
    /\ i > Len(data)
    /\ \/ /\ ~Truthy(vectors_to_upload)
          /\ pc' = "clear"
          /\ UNCHANGED <<vectors_to_upload, exc, upserts, index>>
       \/ /\ Truthy(vectors_to_upload)   \* line 141 returns
          /\ upserts' = Append(upserts, vectors_to_upload)
          /\ index' = [index EXCEPT !.vectors = IndexUpsert(@, vectors_to_upload)]
          /\ pc' = "clear"
          /\ UNCHANGED <<vectors_to_upload, exc>>
       \/ /\ Truthy(vectors_to_upload)   \* line 141 raises
          /\ upserts' = Append(upserts, vectors_to_upload)
          /\ Raise("pinecone")
          /\ UNCHANGED <<vectors_to_upload, index>>
    /\ UNCHANGED <<data, i, driver, handled, status, tx, run>>
    /\ UNCHANGED <<file, graph, clock, report, configVars>>

\* Lines 182-185: the session and the clearing transaction.  A write
\* transaction that raises is rolled back: the graph is as before.
ClearGraph ==
    /\ pc = "clear"
    /\ tx' = [tx EXCEPT !.clear = @ + 1]
    /\ \/ /\ Raise("neo4j")
          /\ UNCHANGED <<i, graph>>
       \/ /\ graph' = clear_database(graph)
          /\ i' = 1
          /\ pc' = NodesNext(1)
          /\ UNCHANGED exc
    /\ UNCHANGED <<data, vectors_to_upload, driver, handled, status, upserts, run>>
    /\ UNCHANGED <<file, index, clock, report, configVars>>

\* Lines 189-190: one node transaction.  Time does not run backwards: the
\* clock the transaction reads is the last one read or a later one.
CreateNode ==
    /\ pc = "nodes"
    /\ tx' = [tx EXCEPT !.node = @ + 1]
    /\ \/ /\ Raise("neo4j")
          /\ UNCHANGED <<i, graph, clock>>
       \/ /\ \E now \in clock..MaxClock :
                /\ now <= clock + 1
                /\ clock' = now
                /\ graph' = create_node(graph, data[i], now)
          /\ i' = Cursor(i + 1)
          /\ pc' = NodesNext(i + 1)
          /\ UNCHANGED exc
    /\ UNCHANGED <<data, vectors_to_upload, driver, handled, status, upserts, run>>
    /\ UNCHANGED <<file, index, report, configVars>>

\* Lines 194-195: one record's relationship transaction.
CreateRelationships ==
    /\ pc = "rels"
    /\ tx' = [tx EXCEPT !.rel = @ + RelTransactions(data[i]),
                        !.query = @ + RelQueries(data[i])]
    /\ \/ /\ Raise("neo4j")
          /\ UNCHANGED <<i, graph>>
       \/ /\ graph' = create_relationships(graph, data[i])
          /\ i' = Cursor(i + 1)
          /\ pc' = RelsNext(i + 1)
          /\ UNCHANGED exc
    /\ UNCHANGED <<data, vectors_to_upload, driver, handled, status, upserts, run>>
    /\ UNCHANGED <<file, index, clock, report, configVars>>

\* Lines 210-221: the two counts are read and printed.
VerifyCounts ==
    /\ pc = "verify"
    /\ \/ Raise("verify")
       \/ /\ pc' = "finally"
          /\ UNCHANGED exc
    /\ UNCHANGED <<data, i, vectors_to_upload, driver, handled, status,
                   upserts, tx, run>>
    /\ UNCHANGED <<storeVars, report, configVars>>

\* Lines 223-226.
Except ==
    /\ pc = "except"
    /\ handled' = handled + 1
    /\ pc' = "finally"
    /\ UNCHANGED <<data, i, vectors_to_upload, driver, exc, status, upserts,
                   tx, run>>
    /\ UNCHANGED <<storeVars, report, configVars>>

\* Lines 227-228, and the end of the script.
Finally ==
    /\ pc = "finally"
    /\ driver' = "closed"
    /\ pc' = "exited"
    /\ status' = "clean"
    /\ UNCHANGED <<data, i, vectors_to_upload, exc, handled, upserts, tx, run>>
    /\ UNCHANGED <<storeVars, report, configVars>>

---------------------------------------------------------------------------
(* The script run again, and verify_upload.py *)

NoReport == [ran |-> FALSE, total_vectors |-> 0, total_nodes |-> 0,
             total_relationships |-> 0, node_types |-> <<>>]

\* A new process of upload_data.py, on the same file and the same stores.
Restart ==
    /\ pc = "exited"
    /\ run < MaxRuns
    /\ run' = run + 1
    /\ pc' = "init_clients"
    /\ data' = <<>>
    /\ i' = 1
    /\ vectors_to_upload' = <<>>
    /\ driver' = "none"
    /\ exc' = "none"
    /\ handled' = 0
    /\ status' = "running"
    /\ upserts' = <<>>
    /\ tx' = NoTx
    /\ report' = NoReport
    /\ UNCHANGED <<storeVars, configVars>>

\* The label of the per-type query (verify_upload.py line 37).
BreakdownLabel == "Entity"

\* RETURN n.type as node_type, count(n) as count: one row for each type.
TypeRows(g, label) ==
    LET ns == {n \in g.nodes : n.label = label}
    IN {[node_type |-> t, count |-> Cardinality({n \in ns : n.type = t})] :
            t \in {n.type : n \in ns}}

\* ORDER BY count DESC: the orders the store may return the rows in.
Descending(rows) ==
    {s \in [1..Cardinality(rows) -> rows] :
        /\ \A a, b \in DOMAIN s : a # b => s[a] # s[b]
        /\ \A a, b \in DOMAIN s : a < b => s[a].count >= s[b].count}

\* LIMIT n
Limit(s, n) == SubSeq(s, 1, IF Len(s) < n THEN Len(s) ELSE n)

\* verify_upload.py, run after the upload script has ended.  It only reads.
RunVerifier ==
    /\ pc = "exited"
    /\ \/ /\ ~index.exists               \* describe_index_stats raises
          /\ report' = NoReport
       \/ /\ index.exists
          /\ \E s \in Descending(TypeRows(graph, BreakdownLabel)) :
                report' = [ran |-> TRUE,
                           total_vectors |-> Cardinality(index.vectors),
                           total_nodes |-> Cardinality(graph.nodes),
                           total_relationships |-> BagCardinality(graph.edges),
                           node_types |-> Limit(s, TopLimit)]
    /\ UNCHANGED <<procVars, storeVars, configVars>>

---------------------------------------------------------------------------
(* config.py *)

Placeholder == "your-neo4j-uri"

\* A URI, by parts: `part in uri` asks whether a part is among them.
DefaultUri == <<"neo4j+s://", Placeholder, ".databases.neo4j.io">>
RealUri == <<"neo4j+s://", "abc123", ".databases.neo4j.io">>
CopiedUri == <<"bolt://", Placeholder, ":7687">>

Contains(uri, part) == \E k \in DOMAIN uri : uri[k] = part

Unset == [set |-> FALSE]
SetTo(v) == [set |-> TRUE, value |-> v]

\* os.getenv(name, default)
Getenv(env, name, default) == IF env[name].set THEN env[name].value ELSE default

KeyValues == {Unset, SetTo(""), SetTo("secret")}

Environs ==
    [PINECONE_API_KEY : KeyValues,
     NEO4J_PASSWORD : KeyValues,
     OPENAI_API_KEY : KeyValues,
     HUGGINGFACE_API_KEY : KeyValues,
     LLM_PROVIDER : {Unset, SetTo("openai"), SetTo("huggingface"), SetTo("cohere")},
     NEO4J_URI : {Unset, SetTo(<<>>), SetTo(RealUri), SetTo(CopiedUri)}]

NotLoaded ==
    [loaded |-> FALSE, NEO4J_URI |-> <<>>, NEO4J_PASSWORD |-> "",
     PINECONE_API_KEY |-> "", LLM_PROVIDER |-> "", OPENAI_API_KEY |-> "",
     HUGGINGFACE_API_KEY |-> ""]

\* Lines 9-21: the settings validate_config reads.
Settings(env) ==
    [loaded |-> TRUE,
     NEO4J_URI |-> Getenv(env, "NEO4J_URI", DefaultUri),
     NEO4J_PASSWORD |-> Getenv(env, "NEO4J_PASSWORD", ""),
     PINECONE_API_KEY |-> Getenv(env, "PINECONE_API_KEY", ""),
     LLM_PROVIDER |-> Getenv(env, "LLM_PROVIDER", "huggingface"),
     OPENAI_API_KEY |-> Getenv(env, "OPENAI_API_KEY", ""),
     HUGGINGFACE_API_KEY |-> Getenv(env, "HUGGINGFACE_API_KEY", "")]

\* `not X or X == ""` for a str X
Blank(x) == (x = "") \/ (x = "")

\* Lines 36-51: the errors list, as the appends build it.
ConfigErrors(c) ==
    (IF Blank(c.PINECONE_API_KEY) THEN <<"PINECONE_API_KEY is not set">> ELSE <<>>)
    \o (IF Blank(c.NEO4J_PASSWORD) THEN <<"NEO4J_PASSWORD is not set">> ELSE <<>>)
    \o (IF c.LLM_PROVIDER = "openai" /\ Blank(c.OPENAI_API_KEY)
        THEN <<"OPENAI_API_KEY is not set (LLM_PROVIDER=openai)">>
        ELSE IF c.LLM_PROVIDER = "huggingface" /\ Blank(c.HUGGINGFACE_API_KEY)
        THEN <<"HUGGINGFACE_API_KEY is not set (LLM_PROVIDER=huggingface)">>
        ELSE <<>>)
    \o (IF Contains(c.NEO4J_URI, Placeholder)
        THEN <<"NEO4J_URI is not properly configured">> ELSE <<>>)

Pending == [kind |-> "pending", value |-> FALSE, lines |-> <<>>]

\* validate_config (lines 34-57): raise ValueError with every error, each on
\* a line of the message after its heading, or return True.
validate_config_first_only(c) ==
    IF Truthy(ConfigErrors(c))
    THEN [kind |-> "raise ValueError", value |-> FALSE,
          lines |-> <<"Configuration errors:", Head(ConfigErrors(c))>>]
    ELSE [kind |-> "return", value |-> TRUE, lines |-> <<>>]

validate_config(c) ==
    IF Truthy(ConfigErrors(c))
    THEN [kind |-> "raise ValueError", value |-> FALSE,
          lines |-> <<"Configuration errors:">> \o ConfigErrors(c)]
    ELSE [kind |-> "return", value |-> TRUE, lines |-> <<>>]

\* import config
LoadConfig ==
    /\ ~cfg.loaded
    /\ cfg' = Settings(environ)
    /\ UNCHANGED <<environ, validation>>
    /\ UNCHANGED <<procVars, storeVars, report>>

\* config.validate_config()
ValidateConfig ==
    /\ cfg.loaded
    /\ validation' = validate_config(cfg)
    /\ UNCHANGED <<environ, cfg>>
    /\ UNCHANGED <<procVars, storeVars, report>>

---------------------------------------------------------------------------
(* Specifications *)

NoFile == [exists |-> FALSE, records |-> <<>>]
FileOf(d) == [exists |-> TRUE, records |-> d]

\* What the stores may hold before the first run: nothing, or the leavings
\* of an earlier load (a vector, two nodes of two labels, an edge).
FreshStores == [index |-> [exists |-> FALSE, vectors |-> {}], graph |-> EmptyGraph]

UsedStores ==
    [index |-> [exists |-> TRUE,
                vectors |-> {VectorEntry(WithAttrs(StrVal("9"), [name |-> "old",
                                description |-> "", type |-> "t9"]), 0)}],
     graph |-> [nodes |-> {[nid |-> 0, label |-> "Entity", id |-> StrVal("9"),
                            name |-> "old", description |-> "", type |-> "t9",
                            created_at |-> 0],
                           [nid |-> 1, label |-> "ServiceRule", id |-> StrVal("1"),
                            name |-> "old", description |-> "", type |-> "t9",
                            created_at |-> 0]},
                edges |-> SetToBag({[from |-> 0, to |-> 1, rel |-> "RELATED_TO",
                                     type |-> "OLD"]})]]

ProcessStart ==
    /\ pc = "init_clients"
    /\ data = <<>>
    /\ i = 1
    /\ vectors_to_upload = <<>>
    /\ driver = "none"
    /\ exc = "none"
    /\ handled = 0
    /\ status = "running"
    /\ upserts = <<>>
    /\ tx = NoTx
    /\ run = 1
    /\ clock = 0
    /\ report = NoReport

ConfigIdle ==
    /\ environ = [PINECONE_API_KEY |-> Unset, NEO4J_PASSWORD |-> Unset,
                  OPENAI_API_KEY |-> Unset, HUGGINGFACE_API_KEY |-> Unset,
                  LLM_PROVIDER |-> Unset, NEO4J_URI |-> Unset]
    /\ cfg = NotLoaded
    /\ validation = Pending

\* The upload script and the verifier, on short datasets of every shape and
\* on one dataset longer than a batch.
Init ==
    /\ ProcessStart
    /\ file \in {NoFile} \cup {FileOf(d) : d \in DataSets}
                \cup {FileOf(Repeated(WithAttrs(StrVal("1"), AttrsOf(StrVal("1"))),
                                      BATCH_SIZE + 1))}
    /\ \E s \in {FreshStores, UsedStores} :
          /\ index = s.index
          /\ graph = s.graph
    /\ ConfigIdle

Next ==
    \/ InitClients
    \/ EnsureIndex
    \/ LoadData
    \/ PineconeItem
    \/ PineconeFinish
    \/ ClearGraph
    \/ CreateNode
    \/ CreateRelationships
    \/ VerifyCounts
    \/ Except
    \/ Finally
    \/ Restart
    \/ RunVerifier

Spec == Init /\ [][Next]_vars

\* The script up to the return of upload_to_pinecone, on datasets of every
\* length up to MaxLong.
InitBatch ==
    /\ ProcessStart
    /\ file \in {FileOf(LongData(n)) : n \in 0..MaxLong}
    /\ index = FreshStores.index
    /\ graph = FreshStores.graph
    /\ ConfigIdle

NextBatch ==
    \/ InitClients
    \/ EnsureIndex
    \/ LoadData
    \/ PineconeItem
    \/ PineconeFinish

SpecBatch == InitBatch /\ [][NextBatch]_vars

\* config.py under every environment.
InitConfig ==
    /\ ProcessStart
    /\ file = NoFile
    /\ index = FreshStores.index
    /\ graph = FreshStores.graph
    /\ environ \in Environs
    /\ cfg = NotLoaded
    /\ validation = Pending

NextConfig ==
    \/ LoadConfig
    \/ ValidateConfig

SpecConfig == InitConfig /\ [][NextConfig]_vars

---------------------------------------------------------------------------
(* Properties *)

\* The run went through the whole try block and the process has ended.
Succeeded == pc = "exited" /\ status = "clean" /\ exc = "none"

RecordIds == {Get(data[k], "id", StrVal(EmptyStr)) : k \in DOMAIN data}

DistinctIds == \A a, b \in DOMAIN data : a # b => data[a].id # data[b].id

HasDangling(item) ==
    \E k \in DOMAIN Connections(item) : Connections(item)[k].id \notin RecordIds

\* The (from, to, relation type) of the connections of the first n records
\* whose target is a record's id.
WantedTriples(n) ==
    UNION {{<<data[k].id, Connections(data[k])[c].id,
              Get(Connections(data[k])[c], "type", "RELATED")>> :
               c \in {c \in DOMAIN Connections(data[k]) :
                        Connections(data[k])[c].id \in RecordIds}} :
           k \in 1..n}

NodeOf(nid) == CHOOSE n \in graph.nodes : n.nid = nid

Dangling(e) == \/ \A a \in graph.nodes : a.nid # e.from
               \/ \A b \in graph.nodes : b.nid # e.to

\* The (from, to, relation type) of the edges in the graph store.
EdgeTriples ==
    {<<NodeOf(e.from).id, NodeOf(e.to).id, e.type>> : e \in BagToSet(graph.edges)}

EdgesWellFormed ==
    \A e \in BagToSet(graph.edges) :
        /\ ~Dangling(e)
        /\ e.rel = "RELATED_TO"
        /\ CopiesIn(e, graph.edges) = 1
        /\ \A f \in BagToSet(graph.edges) :
              (f.from = e.from /\ f.to = e.to /\ f.type = e.type) => f = e

\* Relationship transactions committed in this run, when none has raised.
RelsDone == IF pc = "rels" THEN i - 1 ELSE Len(data)

InOrAfterRels == exc = "none" /\ (pc \in {"rels", "verify", "finally"} \/ Succeeded)

---------------------------------------------------------------------------
\* C1: in upload_to_neo4j no relationship transaction is issued before the
\* node transaction of every record has committed, and no node transaction
\* before the clearing transaction.
C1_NodesBeforeEdges ==
    /\ (tx.rel > 0 \/ tx.query > 0 \/ pc = "rels") =>
          /\ tx.node = Len(data)
          /\ \A k \in DOMAIN data :
                Matching(graph, "ServiceRule", data[k].id) # {}
    /\ (tx.node > 0 \/ pc = "nodes") => tx.clear = 1

C1_Witness ==
    /\ tx.rel > 0
    /\ tx.query > 0
    /\ Len(data) >= 2
    /\ Cardinality(graph.nodes) >= 2

---------------------------------------------------------------------------
CeilDiv(n, d) == (n + d - 1) \div d

\* C2: when upload_to_pinecone returns, it has issued ceil(N/32) upsert
\* calls, each before the last of 32 vectors and the last of N mod 32 (of 32
\* when that is 0), none empty, which together carry the vector of every
\* record once, in dataset order.
C2_Batching ==
    (pc = "clear" /\ exc = "none") =>
        LET N == Len(data)
            calls == Len(upserts)
        IN /\ calls = CeilDiv(N, BATCH_SIZE)
           /\ \A c \in 1..calls - 1 : Len(upserts[c]) = BATCH_SIZE
           /\ calls > 0 =>
                 Len(upserts[calls]) =
                    IF N % BATCH_SIZE # 0 THEN N % BATCH_SIZE ELSE BATCH_SIZE
           /\ \A c \in 1..calls : Len(upserts[c]) > 0
           /\ Len(Flatten(upserts)) = N
           /\ \A k \in 1..N : Flatten(upserts)[k] = VectorEntry(data[k], k - 1)

C2_Witness ==
    /\ pc = "clear"
    /\ Len(data) = 2 * BATCH_SIZE + 1
    /\ Len(upserts) = 3
    /\ Len(upserts[3]) = 1

---------------------------------------------------------------------------
\* C3: a process that opened the graph store driver has closed it when it
\* ends, be it at the end of the script (after a run that went through or
\* after the except clause) or at a sys.exit(1) of the setup.
C3_DriverClosedAtExit ==
    (pc = "exited" /\ status \in {"clean", "sys.exit(1)"}) => driver # "open"

---------------------------------------------------------------------------
\* C4: once a call of upload_to_pinecone has raised, the run issues no
\* further upsert, leaves the vector index as the earlier batches made it and
\* the graph store untouched (no transaction of this run, before or after),
\* and runs the except clause once, and only once, before the process ends.
C4_PineconeFailureAborts ==
    [][ /\ (exc = "none" /\ exc' = "pinecone") =>
              /\ index' = index
              /\ graph' = graph
              /\ \A c \in 1..Len(upserts) : \A k \in DOMAIN upserts[c] :
                    \E v \in index'.vectors : v.id = upserts[c][k].id
        /\ (exc = "pinecone" /\ run' = run) =>
              /\ upserts' = upserts
              /\ index' = index
              /\ graph' = graph
              /\ tx = NoTx /\ tx' = NoTx
              /\ handled' <= 1
              /\ pc' = "exited" => (handled' = 1 /\ driver' = "closed")
      ]_vars

C4_Witness ==
    /\ exc = "pinecone"
    /\ pc = "exited"
    /\ handled = 1
    /\ Len(upserts) = 2
    /\ Cardinality(index.vectors) >= 1
    /\ tx = NoTx

---------------------------------------------------------------------------
\* The clock readings, none earlier than the one before, that n node
\* transactions starting now may get.
RECURSIVE Readings(_, _)
Readings(n, from) ==
    IF n = 0 THEN {<<>>}
    ELSE UNION {{<<t>> \o s : s \in Readings(n - 1, t)} : t \in from..MaxClock}

NodesJustUploaded ==
    /\ exc = "none"
    /\ pc \in {"rels", "verify"}
    /\ tx.node = Len(data)
    /\ tx.rel = 0

\* C5: when the node upload has run, running it again with the same records
\* leaves the same nodes, every field of every node as it was.
C5_NodeUploadIdempotent ==
    NodesJustUploaded =>
        \A times \in Readings(Len(data), clock) :
            upload_nodes(graph, data, times).nodes = graph.nodes

---------------------------------------------------------------------------
\* C6: while and after the relationships are uploaded, a connection to an
\* id no record has stops nothing and leaves nothing: the transaction of a
\* record with such a connection can commit, no node exists but the
\* records', and the edges are those of the connections, among the records
\* done, whose target is a record's id.
C6_DanglingTargetIsNoOp ==
    InOrAfterRels =>
        /\ {n.id : n \in graph.nodes} = RecordIds
        /\ EdgesWellFormed
        /\ EdgeTriples = WantedTriples(RelsDone)
        /\ (pc = "rels" /\ HasDangling(data[i])) =>
              ENABLED (CreateRelationships /\ exc' = "none")

C6_Witness ==
    /\ Succeeded
    /\ \E k \in DOMAIN data : HasDangling(data[k])
    /\ BagCardinality(graph.edges) >= 2

---------------------------------------------------------------------------
MissingSettings(env) ==
    LET blank(name) == ~env[name].set \/ env[name].value = ""
        provider == IF env["LLM_PROVIDER"].set THEN env["LLM_PROVIDER"].value
                    ELSE "huggingface"
    IN {name \in {"PINECONE_API_KEY", "NEO4J_PASSWORD"} : blank(name)}
       \cup {name \in {"OPENAI_API_KEY"} : provider = "openai" /\ blank(name)}
       \cup {name \in {"HUGGINGFACE_API_KEY"} :
                provider = "huggingface" /\ blank(name)}
       \cup {name \in {"NEO4J_URI"} :
                ~env[name].set \/ Contains(env[name].value, Placeholder)}

Validated == validation.kind # "pending"

\* C7 as claimed: validate_config returns, either success or the list of
\* errors, one for each mandatory setting that is missing or misconfigured.
C7_ReturnsErrorList ==
    Validated =>
        /\ validation.kind = "return"
        /\ MissingSettings(environ) = {} => validation.value = TRUE
        /\ MissingSettings(environ) # {} =>
              Len(validation.lines) = Cardinality(MissingSettings(environ))

\* C7 as amended: validate_config returns True when nothing is missing, and
\* otherwise raises one ValueError whose message has, after its heading, one
\* line for each of: PINECONE_API_KEY blank, NEO4J_PASSWORD blank, NEO4J_URI
\* unset or holding the placeholder host, and the blank key of the provider
\* when LLM_PROVIDER is openai or huggingface (unset counts as huggingface).
C7_RaisesAllErrors ==
    Validated =>
        LET missing == MissingSettings(environ)
            lines == validation.lines
        IN /\ missing = {} => validation = [kind |-> "return", value |-> TRUE,
                                            lines |-> <<>>]
           /\ missing # {} =>
                 /\ validation.kind = "raise ValueError"
                 /\ Len(lines) = 1 + Cardinality(missing)
                 /\ lines[1] = "Configuration errors:"
                 /\ \A a, b \in DOMAIN lines : a # b => lines[a] # lines[b]
                 /\ "PINECONE_API_KEY" \in missing
                        <=> "PINECONE_API_KEY is not set" \in Range(lines)
                 /\ "NEO4J_PASSWORD" \in missing
                        <=> "NEO4J_PASSWORD is not set" \in Range(lines)
                 /\ "OPENAI_API_KEY" \in missing
                        <=> "OPENAI_API_KEY is not set (LLM_PROVIDER=openai)"
                               \in Range(lines)
                 /\ "HUGGINGFACE_API_KEY" \in missing
                        <=> "HUGGINGFACE_API_KEY is not set (LLM_PROVIDER=huggingface)"
                               \in Range(lines)
                 /\ "NEO4J_URI" \in missing
                        <=> "NEO4J_URI is not properly configured" \in Range(lines)

C7_Witness ==
    /\ validation.kind = "raise ValueError"
    /\ Cardinality(MissingSettings(environ)) = 4
    /\ Len(validation.lines) = 5

---------------------------------------------------------------------------
\* C8: after a successful upload the verifier's breakdown lists, for the
\* nodes the uploader wrote (label ServiceRule), the types with the most
\* nodes, at most 10 of them, most nodes first.
C8_BreakdownOfUploadedNodes ==
    (Succeeded /\ report.ran) =>
        \E s \in Descending(TypeRows(graph, "ServiceRule")) :
            report.node_types = Limit(s, TopLimit)

---------------------------------------------------------------------------
ConnectionCount(n) == SumSeq([k \in 1..n |-> Len(Connections(data[k]))])

\* C9 as claimed: one write transaction for each edge, so k transactions for
\* a record with k connections.
C9_OneTransactionPerEdge ==
    InOrAfterRels => tx.rel = ConnectionCount(RelsDone)

\* C9 as amended: one write transaction for each record, whatever the
\* number k of its connections, which runs k queries, one for each
\* connection.
C9_OneTransactionPerRecord ==
    InOrAfterRels =>
        /\ tx.rel = RelsDone
        /\ tx.query = ConnectionCount(RelsDone)

C9_Witness ==
    /\ Succeeded
    /\ \E k \in DOMAIN data : Len(Connections(data[k])) = 3
    /\ \E k \in DOMAIN data : Len(Connections(data[k])) = 0
    /\ tx.rel = 2
    /\ tx.query = 3

---------------------------------------------------------------------------
\* C10: after a run that went through without error on records of pairwise
\* distinct ids, whatever the stores held before, the upsert calls have
\* carried one vector for each record, the graph store holds one node for
\* each record, with its fields, and no other node, and one edge for each
\* distinct (from, to, relation type) whose target is a record's id, and no
\* other edge.
C10_EndState ==
    (Succeeded /\ DistinctIds) =>
        /\ Len(Flatten(upserts)) = Len(data)
        /\ \A k \in DOMAIN data : Flatten(upserts)[k] = VectorEntry(data[k], k - 1)
        /\ Cardinality(graph.nodes) = Len(data)
        /\ \A k \in DOMAIN data :
              \E n \in graph.nodes :
                 /\ n.label = "ServiceRule"
                 /\ n.id = data[k].id
                 /\ n.name = data[k].name
                 /\ n.description = data[k].description
                 /\ n.type = data[k].type
        /\ EdgesWellFormed
        /\ EdgeTriples = WantedTriples(Len(data))
        /\ BagCardinality(graph.edges) = Cardinality(WantedTriples(Len(data)))

C10_Witness ==
    /\ Succeeded
    /\ DistinctIds
    /\ run = 2
    /\ Len(data) = 2
    /\ Cardinality(graph.nodes) = 2
    /\ BagCardinality(graph.edges) = 2

===========================================================================
